---- MODULE Spec2Model ----
(***************************************************************************)
(* express-magic: magic(routesDir, options) walks a routes directory,      *)
(* derives a mount path for every *.js file from its place in the tree,    *)
(* loads the file and mounts what it exports on an Express router          *)
(* (src/index.js).                                                         *)
(*                                                                         *)
(* Strings are sequences of one-character strings, so that endsWith,       *)
(* slice and path.posix.join are computed character by character, as the   *)
(* program computes them.                                                  *)
(***************************************************************************)
EXTENDS Naturals, Sequences, FiniteSets

VARIABLES
  dirExists,  \* whether RoutesHome exists on the file system
  nodes,      \* the entries below RoutesHome, see NodeChoices and WithEntry
  status,     \* "idle" before magic() is called, then "returned" or "thrown"
  baseDir,    \* magic: const baseDir (the resolved routes directory)
  prefix,     \* magic: const prefix = options.prefix || ''
  router,     \* magic: const router, the registrations router.use made on it
  result,     \* what magic() returned to its caller (NoResult when it threw)
  error,      \* the exception magic() threw (NoError when it returned)
  log         \* the file-system, module and router calls made, in order

vars == <<dirExists, nodes, status, baseDir, prefix, router, result, error, log>>

----------------------------------------------------------------------------
(* Bounds of the model *)

\* The number of entries (files, directories, others) below the routes directory.
MaxNodes == 3

----------------------------------------------------------------------------
(* Strings *)

Str_index_js == <<"i","n","d","e","x",".","j","s">>
Str_users_js == <<"u","s","e","r","s",".","j","s">>
\* A file named "...js": its name ends in ".js" and the rest of it is "..".
Str_dotdot_js == <<".",".",".","j","s">>
Str_users == <<"u","s","e","r","s">>
Str_api_dir == <<"a","p","i">>
Str_js == <<".","j","s">>
Str_dot == <<".">>
Str_dotdot == <<".",".">>
Str_slash == <<"/">>
Str_empty == <<>>
Str_api == <<"/","a","p","i">>
Str_app == <<"/","a","p","p">>
Str_tmp == <<"/","t","m","p">>
Str_routes == <<"r","o","u","t","e","s">>

\* String.prototype.endsWith
EndsWith(s, suffix) ==
  /\ Len(s) >= Len(suffix)
  /\ SubSeq(s, Len(s) - Len(suffix) + 1, Len(s)) = suffix

\* String.prototype.slice(0, -k)
SliceOffEnd(s, k) ==
  IF Len(s) > k THEN SubSeq(s, 1, Len(s) - k) ELSE Str_empty

\* The segments of s between its "/" characters ("a//b" has an empty one).
RECURSIVE SplitFrom(_, _, _)
SplitFrom(s, i, cur) ==
  IF i > Len(s) THEN <<cur>>
  ELSE IF s[i] = "/" THEN <<cur>> \o SplitFrom(s, i + 1, Str_empty)
  ELSE SplitFrom(s, i + 1, Append(cur, s[i]))

Split(s) == SplitFrom(s, 1, Str_empty)

\* The segments joined by "/".
RECURSIVE JoinSegs(_)
JoinSegs(segs) ==
  IF Len(segs) = 0 THEN Str_empty
  ELSE IF Len(segs) = 1 THEN segs[1]
  ELSE segs[1] \o Str_slash \o JoinSegs(Tail(segs))

\* node's normalizeString: "" and "." segments are dropped, ".." removes the
\* segment before it, or stays when there is none to remove and the path is
\* relative (allowAboveRoot).
RECURSIVE NormalizeSegs(_, _, _)
NormalizeSegs(segs, res, allowAboveRoot) ==
  IF Len(segs) = 0 THEN res
  ELSE LET seg == Head(segs)
           rest == Tail(segs)
       IN IF seg = Str_empty \/ seg = Str_dot
            THEN NormalizeSegs(rest, res, allowAboveRoot)
          ELSE IF seg = Str_dotdot
            THEN IF Len(res) > 0 /\ res[Len(res)] # Str_dotdot
                   THEN NormalizeSegs(rest, SubSeq(res, 1, Len(res) - 1), allowAboveRoot)
                 ELSE IF allowAboveRoot
                   THEN NormalizeSegs(rest, Append(res, Str_dotdot), allowAboveRoot)
                 ELSE NormalizeSegs(rest, res, allowAboveRoot)
          ELSE NormalizeSegs(rest, Append(res, seg), allowAboveRoot)

\* path.posix.normalize
PosixNormalize(p) ==
  IF Len(p) = 0 THEN Str_dot
  ELSE LET isAbsolute == p[1] = "/"
           trailingSeparator == p[Len(p)] = "/"
           body == JoinSegs(NormalizeSegs(Split(p), <<>>, ~isAbsolute))
       IN IF Len(body) = 0
            THEN IF isAbsolute THEN Str_slash
                 ELSE IF trailingSeparator THEN Str_dot \o Str_slash ELSE Str_dot
          ELSE (IF isAbsolute THEN Str_slash ELSE Str_empty)
               \o body
               \o (IF trailingSeparator THEN Str_slash ELSE Str_empty)

\* path.posix.join(a, b), which is also path.join(a, b) on a POSIX system:
\* the non-empty arguments joined by "/", then normalized.
PosixJoin(a, b) ==
  LET joined == IF Len(a) = 0 THEN b
                ELSE IF Len(b) = 0 THEN a
                ELSE a \o Str_slash \o b
  IN IF Len(joined) = 0 THEN Str_dot ELSE PosixNormalize(joined)

\* path.isAbsolute
IsAbsolute(p) == Len(p) > 0 /\ p[1] = "/"

----------------------------------------------------------------------------
(* JavaScript values: what a route module can export *)

Undefined == [t |-> "undefined"]
Null == [t |-> "null"]
\* An express.Router() created by the module file f: a function that has a
\* function-valued property "handle".
RouterOf(f) == [t |-> "router", of |-> f]
\* A plain function defined in file f; called with no arguments it returns ret.
FunctionOf(f, ret) == [t |-> "function", of |-> f, returns |-> ret]
\* A plain object (or module namespace) of file f whose property "default"
\* holds dflt (Undefined when it has none).
ObjectOf(f, dflt) == [t |-> "object", of |-> f, default |-> dflt]

\* What the files of the model hold.
ModuleShapes ==
  { "cjsRouter",   \* module.exports = router
    "esmRouter",   \* export default router
    "factory",     \* module.exports = () => router
    "factoryFn",   \* module.exports = () => (req, res, next) => ...
    "factoryObj",  \* module.exports = () => ({})
    "object",      \* module.exports = {}
    "null" }       \* module.exports = null

\* The value require(f) yields for a file of the given shape.
Exports(shape, f) ==
  CASE shape = "cjsRouter" -> RouterOf(f)
    [] shape = "esmRouter" -> ObjectOf(f, RouterOf(f))
    [] shape = "factory" -> FunctionOf(f, RouterOf(f))
    [] shape = "factoryFn" -> FunctionOf(f, FunctionOf(f, Undefined))
    [] shape = "factoryObj" -> FunctionOf(f, ObjectOf(f, Undefined))
    [] shape = "object" -> ObjectOf(f, Undefined)
    [] OTHER -> Null

\* typeof v === 'function'
IsFunction(v) == v.t \in {"router", "function"}
\* typeof v.handle === 'function', for a function v
HasHandle(v) == v.t = "router"
\* v.default, for a v that is neither null nor undefined
DefaultOf(v) == IF v.t = "object" THEN v.default ELSE Undefined
\* JavaScript truthiness of the values above
Truthy(v) == v.t \notin {"undefined", "null"}

----------------------------------------------------------------------------
(* The file system below the routes directory *)

\* Where the routes directory is, when it exists.
RoutesHome == PosixJoin(Str_app, Str_routes)

\* What one directory entry can be: a directory, a regular file, or something
\* else (here a symbolic link to a router module: its Dirent answers false to
\* both isDirectory() and isFile()). A file that is not named *.js holds no
\* module ("none").
NodeChoices ==
  [name : {Str_users, Str_api_dir}, kind : {"dir"}, mod : {"none"}]
  \cup [name : {Str_users_js}, kind : {"other"}, mod : {"cjsRouter"}]
  \cup [name : {Str_users}, kind : {"file"}, mod : {"none"}]
  \cup [name : {Str_index_js}, kind : {"file"}, mod : ModuleShapes]
  \cup [name : {Str_users_js}, kind : {"file"}, mod : {"cjsRouter", "factory", "object"}]
  \cup [name : {Str_dotdot_js}, kind : {"file"}, mod : {"cjsRouter"}]

\* A tree is a sequence of nodes [parent, name, kind, mod, path] in
\* depth-first order: parent is the index of the directory holding the node
\* (0 for the routes directory), path is the node's full path, and a
\* directory lists its entries by increasing index.
RECURSIVE AncestorsOrSelf(_, _)
AncestorsOrSelf(t, i) == IF i = 0 THEN {0} ELSE {i} \cup AncestorsOrSelf(t, t[i].parent)

ChildrenOf(t, d) == {i \in 1..Len(t) : t[i].parent = d}

\* The full path of node i of tree t (0: the routes directory itself).
NodePath(t, i) == IF i = 0 THEN RoutesHome ELSE t[i].path

\* The directories a node appended to t can go into.
OpenDirs(t) ==
  {d \in AncestorsOrSelf(t, Len(t)) : d = 0 \/ t[d].kind = "dir"}

\* Whether an entry c can be created in directory d of t: a directory holds
\* no two entries of one name.
CanCreate(t, d, c) ==
  /\ d \in OpenDirs(t)
  /\ \A i \in ChildrenOf(t, d) : t[i].name # c.name

\* t with the entry c created in its directory d.
WithEntry(t, d, c) ==
  Append(t, [parent |-> d, name |-> c.name, kind |-> c.kind, mod |-> c.mod,
             path |-> NodePath(t, d) \o Str_slash \o c.name])

\* The nodes in increasing order.
RECURSIVE Ascending(_)
Ascending(S) ==
  IF S = {} THEN <<>>
  ELSE LET m == CHOOSE x \in S : \A y \in S : x <= y
       IN <<m>> \o Ascending(S \ {m})

\* The node of t at full path p.
NodeAt(t, p) == CHOOSE i \in 0..Len(t) : NodePath(t, i) = p

\* fs.existsSync(p), for the directories magic() asks about.
existsSync(exists, p) == exists /\ p = RoutesHome

\* fs.readdirSync(dirPath, { withFileTypes: true }): the entries of the
\* directory in the order the file system lists them.
readdirSync(t, dirPath) ==
  LET d == NodeAt(t, dirPath)
      kids == Ascending(ChildrenOf(t, d))
  IN [k \in 1..Len(kids) |-> [name |-> t[kids[k]].name, kind |-> t[kids[k]].kind]]

\* require(fullPath): what the file at fullPath exports.
require(t, fullPath) == Exports(t[NodeAt(t, fullPath)].mod, fullPath)

----------------------------------------------------------------------------
(* Errors, router registrations and the record of calls *)

NoError == [kind |-> "none", path |-> Str_empty]
\* new Error(`Routes directory "${baseDir}" does not exist`)
DirectoryNotFound(dir) == [kind |-> "DirectoryNotFound", path |-> dir]
\* new Error(`The module at ${fullPath} did not return a valid Express router`)
InvalidRouteModule(fullPath) == [kind |-> "InvalidRouteModule", path |-> fullPath]
\* A TypeError of the JavaScript runtime or of Express; its message names no file.
TypeError == [kind |-> "TypeError", path |-> Str_empty]

\* The state a scan works on: the registrations on the router it was given,
\* the calls made so far, and the exception in flight (NoError: none).
ScanState(regs, calls, err) == [router |-> regs, log |-> calls, error |-> err]

Logged(st, op, arg) == [st EXCEPT !.log = Append(@, [op |-> op, arg |-> arg])]

Thrown(st, err) == [st EXCEPT !.error = err]

\* router.use(path, handler) of Express: a handler that is not a function is
\* refused with a TypeError, any function is registered after those before it.
RouterUse(st, fullPath, path, handler) ==
  LET st1 == Logged(st, "use", fullPath)
  IN IF IsFunction(handler)
       THEN [st1 EXCEPT !.router = Append(@, [path |-> path, handler |-> handler])]
     ELSE Thrown(st1, TypeError)

----------------------------------------------------------------------------
(* mountRoutes *)

\* The route of a file entry: baseRoute for index.js, else baseRoute joined
\* with the name less its last three characters.
RoutePathOf(baseRoute, name) ==
  IF name = Str_index_js THEN baseRoute
  ELSE PosixJoin(baseRoute, SliceOffEnd(name, 3))

\* IsModuleEntry without entry.isFile(): anything named *.js is loaded.
IsModuleEntry_AnyKind(entry) == EndsWith(entry.name, Str_js)

\* Whether an entry is loaded as a route module.
IsModuleEntry(entry) == entry.kind = "file" /\ EndsWith(entry.name, Str_js)

\* router.use(routePath ? `/${routePath}` : '/', loadedRoute)
MountLoaded(st, fullPath, routePath, loadedRoute) ==
  RouterUse(st, fullPath,
            IF Len(routePath) > 0 THEN Str_slash \o routePath ELSE Str_slash,
            loadedRoute)

\* LoadAndMount without the call of a plain function: whatever function the
\* module exports is mounted as it is.
LoadAndMount_NeverCalls(t, st, fullPath, routePath) ==
  LET mod == require(t, fullPath)
      st1 == Logged(st, "require", fullPath)
  IN IF ~Truthy(mod)
       THEN Thrown(st1, TypeError)
     ELSE LET routeModule == IF Truthy(DefaultOf(mod)) THEN DefaultOf(mod) ELSE mod
          IN IF IsFunction(routeModule)
               THEN MountLoaded(st1, fullPath, routePath, routeModule)
             ELSE Thrown(st1, InvalidRouteModule(fullPath))

\* From const mod = require(fullPath) to router.use(...): load the module,
\* take its router or call it for one, and mount that.
LoadAndMount(t, st, fullPath, routePath) ==
  LET mod == require(t, fullPath)
      st1 == Logged(st, "require", fullPath)
  IN IF ~Truthy(mod)
       THEN Thrown(st1, TypeError)  \* mod.default of null
     ELSE LET routeModule == IF Truthy(DefaultOf(mod)) THEN DefaultOf(mod) ELSE mod
          IN IF IsFunction(routeModule) /\ HasHandle(routeModule)
               THEN MountLoaded(st1, fullPath, routePath, routeModule)
             ELSE IF IsFunction(routeModule)
               THEN MountLoaded(Logged(st1, "call", fullPath), fullPath, routePath,
                                routeModule.returns)
             ELSE Thrown(st1, InvalidRouteModule(fullPath))

RECURSIVE mountRoutes(_, _, _, _)
RECURSIVE ForEntries(_, _, _, _, _)

\* One turn of the loop over the entries of dirPath.
MountEntry(t, st, dirPath, baseRoute, entry) ==
  LET fullPath == PosixJoin(dirPath, entry.name)
  IN IF entry.kind = "dir"
       THEN mountRoutes(t, st, fullPath, PosixJoin(baseRoute, entry.name))
     ELSE IF IsModuleEntry(entry)
       THEN LoadAndMount(t, st, fullPath, RoutePathOf(baseRoute, entry.name))
     ELSE st

\* for (const entry of entries): an exception ends the loop.
ForEntries(t, st, dirPath, baseRoute, entries) ==
  IF Len(entries) = 0 \/ st.error # NoError THEN st
  ELSE ForEntries(t, MountEntry(t, st, dirPath, baseRoute, Head(entries)),
                  dirPath, baseRoute, Tail(entries))

\* EntryOrder with the files taken before the directories.
EntryOrder_FilesFirst(entries) ==
  SelectSeq(entries, LAMBDA e : e.kind # "dir")
    \o SelectSeq(entries, LAMBDA e : e.kind = "dir")

\* The entries in the order the loop takes them.
EntryOrder(entries) == entries

\* mountRoutes refusing a directory that lists nothing.
mountRoutes_RejectsEmpty(t, st, dirPath, baseRoute) ==
  IF Len(readdirSync(t, dirPath)) = 0
    THEN Thrown(Logged(st, "readdirSync", dirPath), DirectoryNotFound(dirPath))
  ELSE ForEntries(t, Logged(st, "readdirSync", dirPath), dirPath, baseRoute,
                  EntryOrder(readdirSync(t, dirPath)))

mountRoutes(t, st, dirPath, baseRoute) ==
  ForEntries(t, Logged(st, "readdirSync", dirPath), dirPath, baseRoute,
             EntryOrder(readdirSync(t, dirPath)))

----------------------------------------------------------------------------
(* magic *)

NoResult == [t |-> "none"]
\* A router magic() creates with express.Router(), and what was mounted on it.
Str_router == <<"r","o","u","t","e","r">>
Str_outerRouter == <<"o","u","t","e","r","R","o","u","t","e","r">>
NewRouter(name, regs) == [t |-> "router", of |-> name, regs |-> regs]

\* What resolveCallerDir() can yield: the directory of the calling module, or
\* another one (the stack heuristic missed, or process.cwd()).
CallerDirs == {Str_app, Str_tmp}
\* The routesDir arguments: absolute, or relative to the caller.
RoutesDirArgs == {RoutesHome, Str_routes}
\* The options.prefix arguments ('' when options has none).
PrefixArgs == {Str_empty, Str_api}

\* path.isAbsolute(routesDir) ? routesDir : path.join(resolveCallerDir(), routesDir)
ResolveBaseDir(routesDir, callerDir) ==
  IF IsAbsolute(routesDir) THEN routesDir ELSE PosixJoin(callerDir, routesDir)

\* Returned without the outer router: the prefix is dropped.
Returned_NoWrap(pre, regs) == NewRouter(Str_router, regs)

\* The value magic returns once the scan is over.
Returned(pre, regs) ==
  IF Len(pre) > 0
    THEN NewRouter(Str_outerRouter,
                   <<[path |-> pre, handler |-> NewRouter(Str_router, regs)]>>)
  ELSE NewRouter(Str_router, regs)

\* MagicScan without the existence check: the scan starts at once, and
\* listing a directory that does not exist fails with ENOENT.
MagicScan_NoExistsCheck(t, exists, dir) ==
  LET st0 == ScanState(<<>>, <<>>, NoError)
  IN IF existsSync(exists, dir)
       THEN mountRoutes(t, st0, dir, Str_empty)
     ELSE Thrown(Logged(st0, "readdirSync", dir), [kind |-> "ENOENT", path |-> dir])

\* The body of magic up to the scan: check that the directory exists, then
\* scan it with a new router.
MagicScan(t, exists, dir) ==
  LET st0 == ScanState(<<>>, <<[op |-> "existsSync", arg |-> dir]>>, NoError)
  IN IF existsSync(exists, dir)
       THEN mountRoutes(t, st0, dir, Str_empty)
     ELSE Thrown(st0, DirectoryNotFound(dir))

Magic(routesDir, callerDir, optPrefix) ==
  /\ status = "idle"
  /\ \E st \in {MagicScan(nodes, dirExists, ResolveBaseDir(routesDir, callerDir))} :
        /\ baseDir' = ResolveBaseDir(routesDir, callerDir)
        /\ prefix' = optPrefix
        /\ router' = st.router
        /\ log' = st.log
        /\ error' = st.error
        /\ status' = IF st.error = NoError THEN "returned" ELSE "thrown"
        /\ result' = IF st.error = NoError THEN Returned(optPrefix, st.router)
                     ELSE NoResult
  /\ UNCHANGED <<dirExists, nodes>>

----------------------------------------------------------------------------
(* The specification *)

\* Before magic() is called, the routes directory is filled entry by entry.
CreateEntry(d, c) ==
  /\ status = "idle"
  /\ dirExists
  /\ Len(nodes) < MaxNodes
  /\ CanCreate(nodes, d, c)
  /\ nodes' = WithEntry(nodes, d, c)
  /\ UNCHANGED <<dirExists, status, baseDir, prefix, router, result, error, log>>

Init ==
  /\ dirExists \in BOOLEAN
  /\ nodes = <<>>
  /\ status = "idle"
  /\ baseDir = Str_empty
  /\ prefix = Str_empty
  /\ router = <<>>
  /\ result = NoResult
  /\ error = NoError
  /\ log = <<>>

Call ==
  \E routesDir \in RoutesDirArgs, optPrefix \in PrefixArgs :
    \E callerDir \in (IF IsAbsolute(routesDir) THEN {Str_app} ELSE CallerDirs) :
      Magic(routesDir, callerDir, optPrefix)

Populate ==
  \E d \in 0..MaxNodes, c \in NodeChoices : CreateEntry(d, c)

Next == Populate \/ Call

Spec == Init /\ [][Next]_vars

----------------------------------------------------------------------------
(* Vocabulary of the properties *)

\* magic() was called and its routes directory existed, so the scan ran.
ScanRan == status # "idle" /\ dirExists /\ baseDir = RoutesHome

\* The regular files whose name ends in ".js".
ModuleFiles == {i \in 1..Len(nodes) : nodes[i].kind = "file" /\ EndsWith(nodes[i].name, Str_js)}

\* The node itself and everything below it.
RECURSIVE IsUnder(_, _)
IsUnder(i, a) == i = a \/ (i # 0 /\ IsUnder(nodes[i].parent, a))

\* How often a call was made.
CountCalls(op, arg) == Cardinality({k \in 1..Len(log) : log[k] = [op |-> op, arg |-> arg]})

\* Where in the registrations the module of file i is (0: nowhere).
Registered(i) == {k \in 1..Len(router) : router[k].handler.of = nodes[i].path}
PositionOf(i) == IF Registered(i) = {} THEN 0 ELSE CHOOSE k \in Registered(i) : TRUE

\* "/d1/.../dk" for the directory d below the routes directory, "" for the
\* routes directory itself: the names as they are, joined by "/".
RECURSIVE DirRoute(_)
DirRoute(d) ==
  IF d = 0 THEN Str_empty
  ELSE DirRoute(nodes[d].parent) \o Str_slash \o nodes[d].name

\* The name of file i without its extension.
StemOf(i) == SubSeq(nodes[i].name, 1, Len(nodes[i].name) - Len(Str_js))

\* The mount path the specification gives the module file i.
ExpectedMount(i) ==
  LET dir == DirRoute(nodes[i].parent)
  IN IF StemOf(i) = <<"i","n","d","e","x">>
       THEN (IF dir = Str_empty THEN Str_slash ELSE dir)
     ELSE dir \o Str_slash \o StemOf(i)

MountedAt(i, path) ==
  \E k \in 1..Len(router) : router[k].path = path /\ router[k].handler.of = nodes[i].path

\* The shapes of the specification's route module: a router, or a
\* zero-argument function returning one.
ValidShapes == {"cjsRouter", "esmRouter", "factory"}
\* The shapes whose exported value cannot be called.
NotCallableShapes == {"object", "null"}

\* Whether string s begins with pre.
StartsWith(s, pre) ==
  /\ Len(s) >= Len(pre)
  /\ SubSeq(s, 1, Len(pre)) = pre

\* Express mounting: a router mounted at mount sees the URLs that are mount
\* or lie below it, with mount taken off their front.
MountMatches(mount, url) ==
  \/ mount = Str_slash
  \/ url = mount
  \/ StartsWith(url, mount \o Str_slash)

BelowMount(mount, url) ==
  IF mount = Str_slash THEN url
  ELSE IF url = mount THEN Str_slash
  ELSE SubSeq(url, Len(mount) + 1, Len(url))

\* Whether a request for url to router object r comes to handler h.
RECURSIVE Reaches(_, _, _)
Reaches(r, url, h) ==
  \E k \in 1..Len(r.regs) :
    /\ MountMatches(r.regs[k].path, url)
    /\ \/ r.regs[k].handler = h
       \/ /\ "regs" \in DOMAIN r.regs[k].handler
          /\ Reaches(r.regs[k].handler, BelowMount(r.regs[k].path, url), h)

\* prefix + P
Prefixed(pre, path) == pre \o path

----------------------------------------------------------------------------
(* C1: mount paths *)

\* C1: after magic(routesDir) succeeds without a prefix, every module file
\* d1/.../dk/name.js is mounted at "/d1/.../dk/name", or at "/d1/.../dk"
\* ("/" when k = 0) when name is "index".
C1_MountedAtNamedPath ==
  (status = "returned" /\ ScanRan /\ prefix = Str_empty)
    => \A i \in ModuleFiles : MountedAt(i, ExpectedMount(i))

\* The same for the files whose name without ".js" is not a "." or ".."
\* segment: those path.posix.join leaves as they are.
PlainStem(i) == StemOf(i) \notin {Str_empty, Str_dot, Str_dotdot}

MountedAtNamedPath_PlainStems ==
  (status = "returned" /\ ScanRan /\ prefix = Str_empty)
    => \A i \in ModuleFiles : PlainStem(i) => MountedAt(i, ExpectedMount(i))

\* A run in which files two directories down, an index.js among them, were
\* mounted.
PlainStemsMounted ==
  /\ status = "returned" /\ ScanRan /\ prefix = Str_empty
  /\ \E i \in ModuleFiles :
       /\ nodes[i].parent # 0 /\ nodes[nodes[i].parent].parent # 0
       /\ nodes[i].name = Str_index_js
       /\ MountedAt(i, ExpectedMount(i))

----------------------------------------------------------------------------
(* C2: a routes directory that does not exist *)

\* C2: when the resolved routes directory does not exist, magic fails with
\* DirectoryNotFound naming it, and nothing but the existence check was done:
\* no directory listed, no module loaded, no router.use, no router returned.
C2_MissingDirectoryFailsFirst ==
  (status # "idle" /\ ~existsSync(dirExists, baseDir))
    => /\ status = "thrown"
       /\ error = DirectoryNotFound(baseDir)
       /\ log = <<[op |-> "existsSync", arg |-> baseDir]>>
       /\ router = <<>>
       /\ result = NoResult

\* magic('routes'), resolved against a directory that has no routes below it,
\* while the routes directory elsewhere holds entries.
C2_MissingDirectoryCalled ==
  /\ status = "thrown"
  /\ error.kind = "DirectoryNotFound"
  /\ baseDir = PosixJoin(Str_tmp, Str_routes)
  /\ Len(nodes) > 0

----------------------------------------------------------------------------
(* C3, C4: invalid route modules *)

\* The module files the scan loaded.
Loaded == {i \in ModuleFiles : CountCalls("require", nodes[i].path) > 0}

\* C3: when a discovered module file exports a value that cannot be called,
\* the scan fails with InvalidRouteModule, and the error names that file.
C3_NotCallableNamesFile ==
  \A i \in Loaded :
    nodes[i].mod \in NotCallableShapes
      => status = "thrown" /\ error = InvalidRouteModule(nodes[i].path)

\* C4: whenever a discovered file exports neither a router nor a zero-argument
\* function returning a router, magic fails with InvalidRouteModule and
\* returns no router.
C4_InvalidModuleFails ==
  \A i \in Loaded :
    nodes[i].mod \notin ValidShapes
      => /\ status = "thrown"
         /\ error.kind = "InvalidRouteModule"
         /\ result = NoResult

----------------------------------------------------------------------------
(* C5: a router and a function returning it mount alike *)

\* The tree in which every module that exports a function returning its
\* router exports the router itself.
Direct(t) ==
  [i \in 1..Len(t) |->
     IF t[i].mod = "factory" THEN [t[i] EXCEPT !.mod = "cjsRouter"] ELSE t[i]]

\* The calls made for file f, in order.
CallsFor(f) == SelectSeq(log, LAMBDA e : e.arg = f /\ e.op # "readdirSync")

\* C5: with each module that exports a function returning router R replaced
\* by one exporting R, the scan makes the same registrations in the same
\* order and ends the same way; a function is called once, between its load
\* and its mount, and a router is never called.
C5_FactoryMountsAsRouter ==
  ScanRan =>
    /\ \E direct \in {MagicScan(Direct(nodes), dirExists, baseDir)} :
         /\ router = direct.router
         /\ error = direct.error
         /\ status = "returned" => result = Returned(prefix, direct.router)
    /\ \A i \in Loaded :
         /\ nodes[i].mod \in {"cjsRouter", "esmRouter"}
              => CallsFor(nodes[i].path)
                   = <<[op |-> "require", arg |-> nodes[i].path],
                       [op |-> "use", arg |-> nodes[i].path]>>
         /\ nodes[i].mod = "factory"
              => CallsFor(nodes[i].path)
                   = <<[op |-> "require", arg |-> nodes[i].path],
                       [op |-> "call", arg |-> nodes[i].path],
                       [op |-> "use", arg |-> nodes[i].path]>>

\* A scan that mounted a router exported as it is and one returned by a
\* function.
C5_BothKindsMounted ==
  /\ status = "returned" /\ ScanRan
  /\ \E i, j \in ModuleFiles :
       /\ nodes[i].mod = "factory" /\ nodes[j].mod = "cjsRouter"
       /\ MountedAt(i, ExpectedMount(i)) /\ MountedAt(j, ExpectedMount(j))
       /\ router[PositionOf(i)].handler = RouterOf(nodes[i].path)

----------------------------------------------------------------------------
(* C6: the prefix *)

----------------------------------------------------------------------------
(* C7: an empty routes directory *)

\* C7: when the routes directory exists and has no entries, magic returns,
\* raising nothing, a router on which no module is mounted: the scanned
\* router has no registration (with a prefix, the router returned holds only
\* that empty router).
C7_EmptyDirectory ==
  (ScanRan /\ nodes = <<>>) =>
    /\ status = "returned"
    /\ error = NoError
    /\ router = <<>>
    /\ result = IF Len(prefix) > 0
                  THEN NewRouter(Str_outerRouter,
                                 <<[path |-> prefix,
                                    handler |-> NewRouter(Str_router, <<>>)]>>)
                ELSE NewRouter(Str_router, <<>>)

C7_EmptyDirectoryScanned ==
  /\ ScanRan /\ nodes = <<>> /\ status = "returned"
  /\ log = <<[op |-> "existsSync", arg |-> RoutesHome],
             [op |-> "readdirSync", arg |-> RoutesHome]>>

----------------------------------------------------------------------------
(* C8, C9: the order of the scan *)

\* Entry a is listed before entry b in the directory that holds them both.
ListedBefore(a, b) == a < b /\ nodes[a].parent = nodes[b].parent

\* File i comes before file j in the traversal: it is, or lies below, an
\* entry listed before the one that j is or lies below.
ComesBefore(i, j) ==
  \E a, b \in 1..Len(nodes) : ListedBefore(a, b) /\ IsUnder(i, a) /\ IsUnder(j, b)

\* C8: the registrations follow the listings depth first: for A listed
\* before B in one directory, every module mounted for A or from below A is
\* registered before any module mounted for B or from below B.
C8_MountOrderIsListingOrder ==
  ScanRan =>
    \A i, j \in ModuleFiles :
      (ComesBefore(i, j) /\ PositionOf(i) # 0 /\ PositionOf(j) # 0)
        => PositionOf(i) < PositionOf(j)

\* A directory listed before a file, a module from below the directory
\* registered first and the file's second.
C8_DirectoryBeforeFile ==
  /\ status = "returned" /\ ScanRan
  /\ \E a, b \in 1..Len(nodes), i \in ModuleFiles :
       /\ ListedBefore(a, b)
       /\ nodes[a].kind = "dir" /\ b \in ModuleFiles
       /\ IsUnder(i, a)
       /\ PositionOf(i) = 1 /\ PositionOf(b) = 2

\* The module files that are not route modules of the specification.
Invalid == {i \in ModuleFiles : nodes[i].mod \notin ValidShapes}

\* Whether any call was made for file i.
Touched(i) == \E k \in 1..Len(log) : log[k].arg = nodes[i].path

\* C9: the scan stops at the first invalid module of the traversal: it
\* fails, no module after that one is loaded, called or mounted, and every
\* module before it is registered.
C9_FailFastAtFirstInvalid ==
  ScanRan =>
    \A k \in Invalid :
      (\A j \in Invalid \ {k} : ComesBefore(k, j))
        => /\ status = "thrown"
           /\ \A j \in ModuleFiles : ComesBefore(k, j) => ~Touched(j)
           /\ \A j \in ModuleFiles : ComesBefore(j, k) => PositionOf(j) # 0

\* The same for the modules the code refuses: the scan stops at the first
\* module that makes it throw.
Refused == {i \in ModuleFiles : nodes[i].mod \in {"factoryObj", "object", "null"}}

FailFastAtFirstRefused ==
  ScanRan =>
    \A k \in Refused :
      (\A j \in Refused \ {k} : ComesBefore(k, j))
        => /\ status = "thrown"
           /\ \A j \in ModuleFiles : ComesBefore(k, j) => ~Touched(j)
           /\ \A j \in ModuleFiles : ComesBefore(j, k) => PositionOf(j) # 0

FailFastReached ==
  /\ status = "thrown" /\ ScanRan
  /\ \E j, k, l \in ModuleFiles :
       /\ ComesBefore(j, k) /\ ComesBefore(k, l)
       /\ k \in Refused /\ PositionOf(j) # 0

----------------------------------------------------------------------------
(* C10: one registration for each module file *)

\* C10: after a successful scan there are as many registrations as regular
\* files named *.js; each of these was loaded once and mounted once, no
\* other entry was loaded or mounted, and files with one mount path are both
\* on the router.
C10_OneRegistrationPerModuleFile ==
  (status = "returned" /\ ScanRan) =>
    /\ Len(router) = Cardinality(ModuleFiles)
    /\ \A i \in ModuleFiles :
         /\ CountCalls("require", nodes[i].path) = 1
         /\ CountCalls("use", nodes[i].path) = 1
         /\ Cardinality(Registered(i)) = 1
    /\ \A i \in (1..Len(nodes)) \ ModuleFiles :
         /\ CountCalls("require", nodes[i].path) = 0
         /\ CountCalls("use", nodes[i].path) = 0
         /\ Registered(i) = {}

\* users.js and users/index.js, both mounted at "/users".
C10_SamePathTwice ==
  /\ status = "returned" /\ ScanRan
  /\ \E i, j \in ModuleFiles :
       /\ i # j
       /\ nodes[i].name = Str_users_js /\ nodes[j].name = Str_index_js
       /\ MountedAt(i, Str_slash \o Str_users)
       /\ MountedAt(j, Str_slash \o Str_users)

====
